---- MODULE Spec2Model ----
(***************************************************************************)
(* A model of the YouTube-to-MP3 HTTP API: src/unnamed/part_000 (the       *)
(* cached, "optimized" server) and src/index.js (the first server).        *)
(*                                                                         *)
(* JavaScript runs one callback at a time, so every action below is one    *)
(* run-to-completion step of a handler: from the arrival of an event       *)
(* (request, resolver result, timer, stream event, connection close) to    *)
(* the next await or the return of the callback.                           *)
(***************************************************************************)
EXTENDS Integers, Sequences, FiniteSets, TLC

(***************************************************************************)
(* Bounds of the model.                                                    *)
(***************************************************************************)
\* Number of request slots of the request/response endpoints.
MaxReq == 4
\* Number of request slots when every endpoint and identifier is exercised.
MaxEndpointReq == 2
\* Number of streaming downloads.
MaxDl == 2
\* Length of the arrays of identifiers a batch request draws from.
MaxBatchLen == 3
\* Length of the batch arrays sent while the other endpoints are in use.
MaxCallSiteBatchLen == 2
\* The last quarter of an hour of the janitor's clock.
MaxClock == 6
\* Length of the video titles.
MaxTitleLen == 4
\* Length of the lists of audio-only formats.
MaxFormats == 4
\* Capacity of videoInfoCache. The program's value is 1000
\* (src/unnamed/part_000:104); the model keeps the comparison and a
\* capacity small enough to fill.
MaxCacheSize == 2
\* Cache time-to-live in clock ticks. The program's value is 10 minutes
\* (src/unnamed/part_000:37); one tick is a fraction of it.
CACHE_TTL == 2
\* The clock stops once an entry stored at the start has expired.
MaxTime == CACHE_TTL

(***************************************************************************)
(* Video identifiers: strings, as sequences of one-character strings.      *)
(***************************************************************************)
Lower == {"a","b","c","d","e","f","g","h","i","j","k","l","m",
          "n","o","p","q","r","s","t","u","v","w","x","y","z"}
Upper == {"A","B","C","D","E","F","G","H","I","J","K","L","M",
          "N","O","P","Q","R","S","T","U","V","W","X","Y","Z"}
Digit == {"0","1","2","3","4","5","6","7","8","9"}

\* The length the identifier pattern asks for: {11}.
ID_LENGTH == 11

\* /^[a-zA-Z0-9_-]{11}$/.test(videoId)
validateVideoId(videoId) ==
    /\ Len(videoId) = ID_LENGTH
    /\ \A i \in 1..Len(videoId) : videoId[i] \in Lower \cup Upper \cup Digit \cup {"_", "-"}

\* Identifiers the requests draw from: three well-formed ones and four
\* malformed ones (empty, 10 characters, 12 characters, a foreign character).
IdA == <<"d","Q","w","4","w","9","W","g","X","c","Q">>
IdB == <<"_","-","0","a","Z","_","-","9","z","A","5">>
IdC == <<"a","b","c","d","e","f","g","h","i","j","k">>
IdEmpty == << >>
IdShort == <<"d","Q","w","4","w","9","W","g","X","c">>
IdLong == <<"d","Q","w","4","w","9","W","g","X","c","Q","Q">>
IdForeign == <<"d","Q","w","4","w","!","W","g","X","c","Q">>
GoodIds == {IdA, IdB, IdC}
BadIds == {IdEmpty, IdShort, IdLong, IdForeign}
VideoIds == GoodIds \cup BadIds

(***************************************************************************)
(* State.                                                                  *)
(***************************************************************************)
VARIABLES
    videoInfoCache, \* the Map, as the sequence of its entries in insertion order
    now,            \* Date.now(), in ticks
    resolveSeq,     \* number of metadata objects ytdl.getInfo has returned so far
    req,            \* the requests of the request/response endpoints
    dl,             \* the requests of GET /download-mp3/:videoId
    batch,          \* the request of POST /batch-download
    calc,           \* the pure function under study: its argument and its result
    disk,           \* the downloads directory and the janitor's timer
    admin           \* the last request of POST /clear-cache

vars == <<videoInfoCache, now, resolveSeq, req, dl, batch, calc, disk, admin>>

(***************************************************************************)
(* videoInfoCache: a JavaScript Map keeps its keys in insertion order;     *)
(* set() on a present key replaces the value and keeps the key's place.    *)
(***************************************************************************)
CacheKeys(c) == {c[i].key : i \in 1..Len(c)}

CacheHas(c, k) == k \in CacheKeys(c)

CacheIndex(c, k) == CHOOSE i \in 1..Len(c) : c[i].key = k

CacheGet(c, k) == c[CacheIndex(c, k)]

\* A variant of CacheSet that leaves the value of a present key alone.
CacheSetKeepFirst(c, k, d, t) ==
    IF CacheHas(c, k)
    THEN c
    ELSE Append(c, [key |-> k, data |-> d, timestamp |-> t, ins |-> d.ver])

\* A variant of CacheSet that writes the metadata of a present key and leaves
\* the timestamp of the entry as it was.
CacheSetKeepTimestamp(c, k, d, t) ==
    IF CacheHas(c, k)
    THEN [c EXCEPT ![CacheIndex(c, k)] =
             [key |-> k, data |-> d, timestamp |-> c[CacheIndex(c, k)].timestamp,
              ins |-> c[CacheIndex(c, k)].ins]]
    ELSE Append(c, [key |-> k, data |-> d, timestamp |-> t, ins |-> d.ver])

\* A variant of CacheSet that removes a present key and inserts it anew, at
\* the end of the order.
CacheSetReinsert(c, k, d, t) ==
    Append(SelectSeq(c, LAMBDA e : e.key # k),
           [key |-> k, data |-> d, timestamp |-> t, ins |-> d.ver])

\* An entry: key, and the value {data, timestamp}. ins records which store
\* first inserted the key (the serial number of the metadata stored then).
CacheSet(c, k, d, t) ==
    IF CacheHas(c, k)
    THEN [c EXCEPT ![CacheIndex(c, k)] =
             [key |-> k, data |-> d, timestamp |-> t, ins |-> c[CacheIndex(c, k)].ins]]
    ELSE Append(c, [key |-> k, data |-> d, timestamp |-> t, ins |-> d.ver])

\* Variants of CacheFresh: the comparison turned round, and <= for <.
CacheFreshInverted(c, k, t) ==
    /\ CacheHas(c, k)
    /\ t - CacheGet(c, k).timestamp > CACHE_TTL

CacheFreshInclusive(c, k, t) ==
    /\ CacheHas(c, k)
    /\ t - CacheGet(c, k).timestamp <= CACHE_TTL

\* cached && Date.now() - cached.timestamp < CACHE_TTL
CacheFresh(c, k, t) ==
    /\ CacheHas(c, k)
    /\ t - CacheGet(c, k).timestamp < CACHE_TTL

\* A variant of CacheStore that never evicts.
CacheStoreNoEvict(c, k, d, t) == CacheSet(c, k, d, t)

\* A variant of CacheStore that evicts the entry with the oldest timestamp.
CacheStoreEvictOldestTimestamp(c, k, d, t) ==
    LET c1 == CacheSet(c, k, d, t)
        i == CHOOSE j \in 1..Len(c1) :
                 \A m \in 1..Len(c1) :
                     \/ c1[j].timestamp < c1[m].timestamp
                     \/ c1[j].timestamp = c1[m].timestamp /\ j <= m
    IN  IF Len(c1) > MaxCacheSize
        THEN SubSeq(c1, 1, i - 1) \o SubSeq(c1, i + 1, Len(c1))
        ELSE c1

\* videoInfoCache.set(...); if (size > 1000) delete(keys().next().value)
CacheStore(c, k, d, t) ==
    LET c1 == CacheSet(c, k, d, t)
    IN  IF Len(c1) > MaxCacheSize THEN Tail(c1) ELSE c1

\* The metadata object a successful ytdl.getInfo returns: every call returns
\* a new object, told apart by its serial number; audio tells whether its
\* formats include an audio-only one.
Metadata(videoId, n, audio) == [id |-> videoId, ver |-> n, audio |-> audio]

NoInfo == [id |-> << >>, ver |-> 0, audio |-> FALSE]

(***************************************************************************)
(* The request/response endpoints.                                         *)
(***************************************************************************)
Endpoints == {"direct-link", "video-info", "formats",
              "video-info-v1", "formats-v1", "download-mp3-post"}

\* Whether the handler checks the identifier before anything else.
Validates(e) == e \in {"direct-link", "video-info", "formats", "download-mp3-post"}

\* Whether the handler resolves through getCachedVideoInfo.
UsesCache(e) == e \in {"direct-link", "video-info", "formats"}

\* The status the handler answers with when ytdl.getInfo rejects.
CatchStatus(e) == IF e = "direct-link" THEN 500 ELSE 404

ResolverErrors == {"not-found", "network"}

Req == 1..MaxReq

\* A request: endpoint, videoId, pc, and the response (status, number of
\* responses sent) are the program's; the other fields record what the
\* request did: the metadata it got (info), its cache lookups and resolver
\* calls, whether the cache served it (hit, with the age of the entry),
\* whether it found an expired entry (stale), whether the cache was full
\* (full) and whether another request for the same identifier was waiting for
\* the resolver (overlap) when it arrived, and the time at which it stored
\* its metadata in the cache (storedAt). cached is the field of that name of
\* the body of GET /video-info of part_000, details the one of the error
\* bodies (error.message).
IdleReq == [endpoint |-> "none", videoId |-> << >>, pc |-> "idle",
            status |-> 0, sent |-> 0, cached |-> FALSE, details |-> "none",
            info |-> NoInfo,
            lookups |-> 0, calls |-> 0, hit |-> FALSE, age |-> 0,
            stale |-> FALSE, full |-> FALSE, overlap |-> FALSE, storedAt |-> 0]

\* res.status(s).json(...)
Respond(q, s) ==
    [q EXCEPT !.status = s, !.sent = q.sent + 1, !.pc = "done"]

\* The status of the answer once the metadata is there: GET /direct-link has
\* no link to give when there is no audio-only format.
AnswerStatus(q) == IF q.endpoint = "direct-link" /\ ~q.info.audio THEN 400 ELSE 200

\* The answer once the metadata is there; the body of GET /video-info of
\* part_000 has cached: videoInfoCache.has(videoId), read from the Map as it
\* is when the body is built.
Answer(q, c) ==
    [Respond(q, AnswerStatus(q)) EXCEPT
        !.cached = (q.endpoint = "video-info" /\ CacheHas(c, q.videoId))]

\* getCachedVideoInfo up to its return (a fresh entry) or its await.
Lookup(q, c, t) ==
    IF CacheFresh(c, q.videoId, t)
    THEN [q EXCEPT !.lookups = q.lookups + 1, !.hit = TRUE,
                   !.info = CacheGet(c, q.videoId).data,
                   !.age = t - CacheGet(c, q.videoId).timestamp]
    ELSE [q EXCEPT !.lookups = q.lookups + 1, !.calls = q.calls + 1,
                   !.stale = CacheHas(c, q.videoId), !.pc = "resolving"]

\* The handler from the arrival of the request to its first await that
\* suspends: validation, then getCachedVideoInfo up to ytdl.getInfo (or
\* ytdl.getInfo directly in index.js).
HandlerStart(r, e, id) ==
    /\ req[r].pc = "idle"
    /\ \A p \in 1..(r - 1) : req[p].pc # "idle"
    /\ LET q0 == [req[r] EXCEPT
                    !.endpoint = e, !.videoId = id,
                    !.full = (Len(videoInfoCache) = MaxCacheSize),
                    !.overlap = \E p \in Req : req[p].pc = "resolving" /\ req[p].videoId = id]
           q1 == Lookup(q0, videoInfoCache, now)
       IN  IF Validates(e) /\ ~validateVideoId(id)
           THEN req' = [req EXCEPT ![r] = Respond(q0, 400)]
           ELSE IF UsesCache(e)
           THEN req' = [req EXCEPT ![r] = IF q1.hit THEN Answer(q1, videoInfoCache) ELSE q1]
           ELSE req' = [req EXCEPT ![r] = [q0 EXCEPT !.calls = 1, !.pc = "resolving"]]
    /\ UNCHANGED <<videoInfoCache, now, resolveSeq, dl, batch, calc, disk, admin>>

\* ytdl.getInfo fulfils: getCachedVideoInfo stores and returns (part_000), and
\* the handler answers; POST /download-mp3 starts the conversion instead.
HandlerResolved(r, audio) ==
    /\ req[r].pc = "resolving"
    /\ LET d == Metadata(req[r].videoId, resolveSeq + 1, audio)
           q == [req[r] EXCEPT !.info = d,
                               !.storedAt = IF UsesCache(req[r].endpoint) THEN now ELSE 0]
       IN  /\ resolveSeq' = resolveSeq + 1
           /\ videoInfoCache' =
                IF UsesCache(q.endpoint)
                THEN CacheStore(videoInfoCache, q.videoId, d, now)
                ELSE videoInfoCache
           /\ req' = [req EXCEPT ![r] =
                        IF q.endpoint = "download-mp3-post"
                        THEN [q EXCEPT !.pc = "converting"]
                        ELSE Answer(q, videoInfoCache')]
    /\ UNCHANGED <<now, dl, batch, calc, disk, admin>>

\* A variant of HandlerRejected that calls the resolver again instead of
\* answering, as the retry loop of the streaming download does.
HandlerRejectedRetry(r, err) ==
    /\ req[r].pc = "resolving"
    /\ req' = [req EXCEPT ![r] =
                 IF req[r].calls < 3
                 THEN [req[r] EXCEPT !.calls = req[r].calls + 1]
                 ELSE Respond(req[r], CatchStatus(req[r].endpoint))]
    /\ UNCHANGED <<videoInfoCache, now, resolveSeq, dl, batch, calc, disk, admin>>

\* A variant of HandlerRejected that drops the identifier's entry when the
\* resolver fails.
HandlerRejectedDropsEntry(r, err) ==
    /\ req[r].pc = "resolving"
    /\ req' = [req EXCEPT ![r] =
                 [Respond(req[r], CatchStatus(req[r].endpoint)) EXCEPT !.details = err]]
    /\ videoInfoCache' = SelectSeq(videoInfoCache, LAMBDA e : e.key # req[r].videoId)
    /\ UNCHANGED <<now, resolveSeq, dl, batch, calc, disk, admin>>

\* ytdl.getInfo rejects: getCachedVideoInfo lets the error through, and the
\* handler's catch block answers.
HandlerRejected(r, err) ==
    /\ req[r].pc = "resolving"
    /\ req' = [req EXCEPT ![r] =
                 [Respond(req[r], CatchStatus(req[r].endpoint)) EXCEPT !.details = err]]
    /\ UNCHANGED <<videoInfoCache, now, resolveSeq, dl, batch, calc, disk, admin>>

\* POST /download-mp3: ffmpeg(stream).save(outputPath) emits 'end' or 'error'.
ConvertEnd(r) ==
    /\ req[r].pc = "converting"
    /\ req' = [req EXCEPT ![r] = Respond(req[r], 200)]
    /\ UNCHANGED <<videoInfoCache, now, resolveSeq, dl, batch, calc, disk, admin>>

ConvertError(r) ==
    /\ req[r].pc = "converting"
    /\ req' = [req EXCEPT ![r] = Respond(req[r], 500)]
    /\ UNCHANGED <<videoInfoCache, now, resolveSeq, dl, batch, calc, disk, admin>>

(***************************************************************************)
(* GET /download-mp3/:videoId, the streaming download, of both servers.    *)
(***************************************************************************)
Servers == {"optimized", "first"}   \* src/unnamed/part_000 and src/index.js

Dl == 1..MaxDl

\* let retries = 3
RETRIES == 3

\* A download request. server, videoId, pc, retries, closeListener (whether
\* req.on('close') is registered), ffmpeg (the transcoding process),
\* headersSent, status and ended (the response is finished) are the
\* program's; closed tells that the client connection has closed. The other
\* fields record what the request did: resolver calls, cache lookups, waits
\* between attempts, JSON bodies sent, whether transcoder output was written
\* (bytes), whether the source stream failed (streamErr), and the writes made
\* to the response after the connection had closed (lateWrites).
IdleDl == [server |-> "none", videoId |-> << >>, pc |-> "idle", retries |-> 0,
           info |-> NoInfo, calls |-> 0, lookups |-> 0, waits |-> 0,
           closed |-> FALSE, closeListener |-> FALSE, ffmpeg |-> "none",
           bytes |-> FALSE, streamErr |-> FALSE,
           headersSent |-> FALSE, status |-> 0, sent |-> 0, ended |-> FALSE,
           lateWrites |-> {}]

\* res.status(s).json(...)
Json(q, s) ==
    [q EXCEPT !.status = s, !.sent = q.sent + 1, !.headersSent = TRUE,
              !.ended = TRUE,
              !.lateWrites = IF q.closed THEN q.lateWrites \cup {"json"}
                             ELSE q.lateWrites]

\* A variant of JsonUnlessHeadersSent without the test.
JsonRegardless(q, s) == Json(q, s)

\* A variant of JsonUnlessHeadersSent with the test turned round.
JsonIfHeadersSent(q, s) == IF q.headersSent THEN Json(q, s) ELSE q

\* if (!res.headersSent) res.status(500).json(...)
JsonUnlessHeadersSent(q, s) == IF q.headersSent THEN q ELSE Json(q, s)

\* The handler once the metadata is there: headers set, the audio-only
\* formats looked at, the source stream and the transcoder built, the close
\* listener registered (part_000 only) and the transcoder piped into the
\* response, which starts the process.
StartPipe(q) ==
    IF ~q.info.audio
    THEN [Json(q, 400) EXCEPT !.pc = "done"]
    ELSE [q EXCEPT !.closeListener = (q.server = "optimized"),
                   !.ffmpeg = "running", !.pc = "piping"]

\* The request arrives: validation, then the metadata fetch up to its await
\* (part_000: getCachedVideoInfo, which may return from the cache; index.js:
\* the first of up to three ytdl.getInfo attempts).
DownloadStart(d, srv, id) ==
    /\ dl[d].pc = "idle"
    /\ \A p \in 1..(d - 1) : dl[p].pc # "idle"
    /\ LET q0 == [dl[d] EXCEPT !.server = srv, !.videoId = id]
       IN  IF ~validateVideoId(id)
           THEN dl' = [dl EXCEPT ![d] = [Json(q0, 400) EXCEPT !.pc = "done"]]
           ELSE IF srv = "optimized"
           THEN IF CacheFresh(videoInfoCache, id, now)
                THEN dl' = [dl EXCEPT ![d] =
                        StartPipe([q0 EXCEPT !.lookups = 1,
                                             !.info = CacheGet(videoInfoCache, id).data])]
                ELSE dl' = [dl EXCEPT ![d] =
                        [q0 EXCEPT !.lookups = 1, !.calls = 1, !.pc = "resolving"]]
           ELSE dl' = [dl EXCEPT ![d] =
                        [q0 EXCEPT !.retries = RETRIES, !.calls = 1, !.pc = "resolving"]]
    /\ UNCHANGED <<videoInfoCache, now, resolveSeq, req, batch, calc, disk, admin>>

\* ytdl.getInfo fulfils: part_000 stores the metadata in the cache; then the
\* handler goes on to the transcoding.
DownloadResolved(d, audio) ==
    /\ dl[d].pc = "resolving"
    /\ LET m == Metadata(dl[d].videoId, resolveSeq + 1, audio)
       IN  /\ resolveSeq' = resolveSeq + 1
           /\ videoInfoCache' =
                IF dl[d].server = "optimized"
                THEN CacheStore(videoInfoCache, dl[d].videoId, m, now)
                ELSE videoInfoCache
           /\ dl' = [dl EXCEPT ![d] = StartPipe([dl[d] EXCEPT !.info = m])]
    /\ UNCHANGED <<now, req, batch, calc, disk, admin>>

\* ytdl.getInfo rejects. part_000: the catch block answers. index.js: one
\* attempt less; after the last one the error reaches the catch block,
\* otherwise the handler waits two seconds.
DownloadRejected(d, err) ==
    /\ dl[d].pc = "resolving"
    /\ dl' = [dl EXCEPT ![d] =
                IF dl[d].server = "optimized" \/ dl[d].retries - 1 = 0
                THEN [JsonUnlessHeadersSent(dl[d], 500) EXCEPT
                         !.retries = IF dl[d].server = "optimized" THEN 0
                                     ELSE dl[d].retries - 1,
                         !.pc = "done"]
                ELSE [dl[d] EXCEPT !.retries = dl[d].retries - 1,
                                   !.waits = dl[d].waits + 1, !.pc = "waiting"]]
    /\ UNCHANGED <<videoInfoCache, now, resolveSeq, req, batch, calc, disk, admin>>

\* index.js: the two seconds are over, the next attempt starts.
RetryTimer(d) ==
    /\ dl[d].pc = "waiting"
    /\ dl' = [dl EXCEPT ![d] = [dl[d] EXCEPT !.calls = dl[d].calls + 1,
                                             !.pc = "resolving"]]
    /\ UNCHANGED <<videoInfoCache, now, resolveSeq, req, batch, calc, disk, admin>>

\* The client connection closes: 'close' is emitted on req, once, and runs
\* the listeners registered at that moment. part_000's listener, if it is
\* registered by then, calls ffmpegProcess.kill('SIGKILL').
ClientClose(d) ==
    /\ dl[d].pc # "idle"
    /\ ~dl[d].closed
    /\ ~dl[d].ended
    /\ dl' = [dl EXCEPT ![d] =
                [dl[d] EXCEPT !.closed = TRUE,
                              !.ffmpeg = IF dl[d].closeListener /\ dl[d].ffmpeg = "running"
                                         THEN "killed" ELSE dl[d].ffmpeg]]
    /\ UNCHANGED <<videoInfoCache, now, resolveSeq, req, batch, calc, disk, admin>>

\* The transcoder produces output, which the pipe writes to the response; the
\* first write sends the headers.
FfmpegOutput(d) ==
    /\ dl[d].ffmpeg = "running"
    /\ ~dl[d].ended
    /\ ~dl[d].bytes
    /\ dl' = [dl EXCEPT ![d] =
                [dl[d] EXCEPT !.bytes = TRUE, !.headersSent = TRUE,
                              !.status = IF dl[d].status = 0 THEN 200 ELSE dl[d].status,
                              !.lateWrites = IF dl[d].closed
                                             THEN dl[d].lateWrites \cup {"bytes"}
                                             ELSE dl[d].lateWrites]]
    /\ UNCHANGED <<videoInfoCache, now, resolveSeq, req, batch, calc, disk, admin>>

\* The transcoder finishes: 'end' is logged and the pipe ends the response.
FfmpegEnd(d) ==
    /\ dl[d].ffmpeg = "running"
    /\ dl' = [dl EXCEPT ![d] = [dl[d] EXCEPT !.ffmpeg = "ended", !.ended = TRUE,
                                             !.pc = "done"]]
    /\ UNCHANGED <<videoInfoCache, now, resolveSeq, req, batch, calc, disk, admin>>

\* A variant of FfmpegError whose handler answers whatever the headers' state.
FfmpegErrorAlwaysAnswers(d) ==
    /\ dl[d].ffmpeg \in {"running", "killed"}
    /\ dl' = [dl EXCEPT ![d] = [Json(dl[d], 500) EXCEPT !.ffmpeg = "failed",
                                                        !.pc = "done"]]
    /\ UNCHANGED <<videoInfoCache, now, resolveSeq, req, batch, calc, disk, admin>>

\* The transcoder emits 'error' (it failed, its input failed, or it was
\* killed): the handler answers 500 unless the headers are sent.
FfmpegError(d) ==
    /\ dl[d].ffmpeg \in {"running", "killed"}
    /\ dl' = [dl EXCEPT ![d] =
                [JsonUnlessHeadersSent(dl[d], 500) EXCEPT !.ffmpeg = "failed",
                                                          !.pc = "done"]]
    /\ UNCHANGED <<videoInfoCache, now, resolveSeq, req, batch, calc, disk, admin>>

\* ffmpegProcess.pipe(res): the output of a transcoder that has failed ends,
\* and the pipe ends the response if it is still open.
PipeEnd(d) ==
    /\ dl[d].ffmpeg = "failed"
    /\ ~dl[d].ended
    /\ dl' = [dl EXCEPT ![d] = [dl[d] EXCEPT !.ended = TRUE]]
    /\ UNCHANGED <<videoInfoCache, now, resolveSeq, req, batch, calc, disk, admin>>

\* index.js: the source stream emits 'error': stream.on('error') answers 500
\* unless the headers are sent.
StreamError(d) ==
    /\ dl[d].server = "first"
    /\ dl[d].ffmpeg = "running"
    /\ ~dl[d].streamErr
    /\ dl' = [dl EXCEPT ![d] =
                [JsonUnlessHeadersSent(dl[d], 500) EXCEPT !.streamErr = TRUE]]
    /\ UNCHANGED <<videoInfoCache, now, resolveSeq, req, batch, calc, disk, admin>>

(***************************************************************************)
(* POST /batch-download.                                                   *)
(***************************************************************************)
\* if (videoIds.length > 10)
BATCH_MAX == 10

\* A repetition of identifier id, n times.
Repeat(id, n) == [i \in 1..n |-> id]

\* The sequences over S of length 1 to n.
SeqsUpTo(S, n) == UNION {[1..m -> S] : m \in 1..n}

BatchIds == {IdA, IdB, IdForeign}

\* The values of req.body.videoIds the clients send: nothing, a string, the
\* empty array, every array of up to MaxBatchLen identifiers, and each of
\* these filled up with malformed identifiers to 10 and to 11 items.
ShortArrays == SeqsUpTo(BatchIds, MaxBatchLen)

BatchBodies ==
    {[type |-> "undefined", items |-> << >>],
     [type |-> "string", items |-> IdA],
     [type |-> "array", items |-> << >>]}
    \cup {[type |-> "array", items |-> a] : a \in ShortArrays}
    \cup {[type |-> "array", items |-> a \o Repeat(IdShort, n - Len(a))] :
             a \in ShortArrays, n \in {BATCH_MAX, BATCH_MAX + 1}}

\* A variant of the input check that lets an array of 11 items through.
BatchInputOkOffByOne(v) ==
    /\ v.type = "array"
    /\ Len(v.items) # 0
    /\ ~(Len(v.items) > BATCH_MAX + 1)

\* Array.isArray(videoIds) && videoIds.length !== 0, and not more than 10.
BatchInputOk(v) ==
    /\ v.type = "array"
    /\ Len(v.items) # 0
    /\ ~(Len(v.items) > BATCH_MAX)

\* The request: pc, the body's videoIds, the promise of every item (results:
\* pending, fulfilled with a value or rejected with a reason) and the
\* response are the program's; validated, lookups and calls count the
\* identifier checks, cache lookups and resolver calls made for it.
IdleBatch == [pc |-> "idle", videoIds |-> [type |-> "undefined", items |-> << >>],
              results |-> << >>,
              status |-> 0, sent |-> 0, body |-> "none",
              successful |-> << >>, failed |-> << >>, total |-> 0,
              validated |-> 0, lookups |-> 0, calls |-> 0]

Pending == [status |-> "pending"]

\* return { videoId, title, filename, downloadUrl, status: 'queued' }
Fulfilled(id, info) ==
    [status |-> "fulfilled", value |-> [videoId |-> id, info |-> info, status |-> "queued"]]

\* throw new Error(message), or the resolver's error
Rejected(message) == [status |-> "rejected", reason |-> message]

\* The async function of videoIds.map, for one item, up to its first await
\* that suspends.
BatchItem(id) ==
    IF ~validateVideoId(id)
    THEN Rejected(<<"Invalid video ID", id>>)
    ELSE IF CacheFresh(videoInfoCache, id, now)
    THEN Fulfilled(id, CacheGet(videoInfoCache, id).data)
    ELSE Pending

\* array.filter(pred): the elements of seq at the positions where pred holds.
RECURSIVE Positions(_, _, _)
Positions(results, status, i) ==
    IF i > Len(results) THEN << >>
    ELSE IF results[i].status = status
    THEN <<i>> \o Positions(results, status, i + 1)
    ELSE Positions(results, status, i + 1)

\* A variant of the response that fails the whole batch when an item failed,
\* as Promise.all would.
BatchResponseAllOrNothing(q) ==
    IF Positions(q.results, "rejected", 1) # << >>
    THEN [q EXCEPT !.status = 500, !.sent = q.sent + 1, !.body = "error", !.pc = "done"]
    ELSE [q EXCEPT !.status = 200, !.sent = q.sent + 1, !.body = "batch_queued",
                   !.successful = [j \in 1..Len(q.results) |-> q.results[j].value],
                   !.total = Len(q.videoIds.items), !.pc = "done"]

\* The aggregation and res.json: successful is the values of the fulfilled
\* results; failed maps each rejected result, with its index in the filtered
\* array, to {videoId: videoIds[index], error: result.reason.message}.
BatchResponse(q) ==
    LET ok == Positions(q.results, "fulfilled", 1)
        ko == Positions(q.results, "rejected", 1)
    IN  [q EXCEPT !.status = 200, !.sent = q.sent + 1, !.body = "batch_queued",
                  !.successful = [j \in 1..Len(ok) |-> q.results[ok[j]].value],
                  !.failed = [j \in 1..Len(ko) |->
                                 [videoId |-> q.videoIds.items[j],
                                  error |-> q.results[ko[j]].reason]],
                  !.total = Len(q.videoIds.items),
                  !.pc = "done"]

\* The request arrives: the input checks, then videoIds.map starts every item.
BatchStart(v) ==
    /\ batch.pc = "idle"
    /\ batch' =
         IF ~BatchInputOk(v)
         THEN [batch EXCEPT !.videoIds = v, !.status = 400, !.sent = 1,
                            !.body = "error", !.pc = "done"]
         ELSE LET rs == [i \in 1..Len(v.items) |-> BatchItem(v.items[i])]
                  valid == {i \in 1..Len(v.items) : validateVideoId(v.items[i])}
              IN  [batch EXCEPT !.videoIds = v, !.results = rs,
                                !.validated = Len(v.items),
                                !.lookups = Cardinality(valid),
                                !.calls = Len(Positions(rs, "pending", 1)),
                                !.pc = "running"]
    /\ UNCHANGED <<videoInfoCache, now, resolveSeq, req, dl, calc, disk, admin>>

\* ytdl.getInfo fulfils for item i: getCachedVideoInfo stores, the item's
\* promise fulfils.
BatchItemResolved(i, audio) ==
    /\ batch.pc = "running"
    /\ i \in 1..Len(batch.results)
    /\ batch.results[i].status = "pending"
    /\ LET id == batch.videoIds.items[i]
           m == Metadata(id, resolveSeq + 1, audio)
       IN  /\ resolveSeq' = resolveSeq + 1
           /\ videoInfoCache' = CacheStore(videoInfoCache, id, m, now)
           /\ batch' = [batch EXCEPT !.results[i] = Fulfilled(id, m)]
    /\ UNCHANGED <<now, req, dl, calc, disk, admin>>

\* ytdl.getInfo rejects for item i: the item's promise rejects.
BatchItemRejected(i, err) ==
    /\ batch.pc = "running"
    /\ i \in 1..Len(batch.results)
    /\ batch.results[i].status = "pending"
    /\ batch' = [batch EXCEPT !.results[i] = Rejected(err)]
    /\ UNCHANGED <<videoInfoCache, now, resolveSeq, req, dl, calc, disk, admin>>

\* Promise.allSettled fulfils once every item has settled: the handler
\* aggregates and answers.
BatchRespond ==
    /\ batch.pc = "running"
    /\ \A i \in 1..Len(batch.results) : batch.results[i].status # "pending"
    /\ batch' = BatchResponse(batch)
    /\ UNCHANGED <<videoInfoCache, now, resolveSeq, req, dl, calc, disk, admin>>

\* The next batch request arrives.
BatchNext ==
    /\ batch.pc = "done"
    /\ batch' = IdleBatch
    /\ UNCHANGED <<videoInfoCache, now, resolveSeq, req, dl, calc, disk, admin>>

(***************************************************************************)
(* GET /direct-link/:videoId: the choice of the best audio format.         *)
(***************************************************************************)
\* The pure function under study, before it is chosen.
NoCalc == [fn |-> "none", input |-> << >>, done |-> FALSE, output |-> << >>]

White == {" ", "\t", "\n"}

DigitSeq == <<"0", "1", "2", "3", "4", "5", "6", "7", "8", "9">>

DigitVal(c) == (CHOOSE i \in 1..Len(DigitSeq) : DigitSeq[i] = c) - 1

\* NaN, and a number.
NaN == [nan |-> TRUE, val |-> 0]

Num(n) == [nan |-> FALSE, val |-> n]

\* The first position of s from i on that holds no white space.
RECURSIVE SkipWhite(_, _)
SkipWhite(s, i) ==
    IF i <= Len(s) /\ s[i] \in White THEN SkipWhite(s, i + 1) ELSE i

\* The first position of s from i on that holds no digit.
RECURSIVE DigitsEnd(_, _)
DigitsEnd(s, i) ==
    IF i <= Len(s) /\ s[i] \in Digit THEN DigitsEnd(s, i + 1) ELSE i

\* The value of the decimal digits s[i] .. s[j-1].
RECURSIVE Decimal(_, _, _)
Decimal(s, i, j) ==
    IF j <= i THEN 0 ELSE 10 * Decimal(s, i, j - 1) + DigitVal(s[j - 1])

\* parseInt(v), on the string v converts to: leading white space is skipped,
\* a sign is read, then the longest run of decimal digits; NaN without one.
parseInt(s) ==
    LET i == SkipWhite(s, 1)
        neg == i <= Len(s) /\ s[i] = "-"
        k == IF i <= Len(s) /\ s[i] \in {"+", "-"} THEN i + 1 ELSE i
        e == DigitsEnd(s, k)
    IN  IF e = k THEN NaN
        ELSE Num(IF neg THEN 0 - Decimal(s, k, e) ELSE Decimal(s, k, e))

\* x || 0
OrZero(x) == IF x.nan \/ x.val = 0 THEN 0 ELSE x.val

\* A variant of the reducer that prefers the later of two equal bitrates.
BetterOrEqual(best, current) ==
    IF OrZero(parseInt(current.audioBitrate)) >= OrZero(parseInt(best.audioBitrate))
    THEN current ELSE best

\* The reducer: currentBitrate > bestBitrate ? current : best
Better(best, current) ==
    IF OrZero(parseInt(current.audioBitrate)) > OrZero(parseInt(best.audioBitrate))
    THEN current ELSE best

\* audioFormats.reduce(callback), without an initial value: the fold starts
\* from the first element and goes on from the second.
RECURSIVE Reduce(_, _, _)
Reduce(audioFormats, i, best) ==
    IF i > Len(audioFormats) THEN best
    ELSE Reduce(audioFormats, i + 1, Better(best, audioFormats[i]))

bestFormat(audioFormats) == Reduce(audioFormats, 2, audioFormats[1])

\* The fields of the answer that come from the chosen format.
DirectLinkBody(audioFormats) ==
    LET best == bestFormat(audioFormats)
    IN  [directUrl |-> best.url, container |-> best.container, codecs |-> best.codecs,
         bitrate |-> best.audioBitrate, sampleRate |-> best.audioSampleRate]

\* The values of audioBitrate, as the strings parseInt converts them to:
\* numbers, a missing one, a non-numeric one, and a number with a unit.
B64 == <<"6", "4">>
B128 == <<"1", "2", "8">>
B160 == <<"1", "6", "0">>
BUndefined == <<"u", "n", "d", "e", "f", "i", "n", "e", "d">>
BText == <<"h", "i", "g", "h">>
BUnit == <<" ", "2", "5", "6", "k">>
Bitrates == {B64, B128, B160, BUndefined, BText, BUnit}

\* The audio-only format at place i of the list, with bitrate b: its other
\* fields are its own.
Format(i, b) ==
    [url |-> <<"url", i>>, container |-> <<"container", i>>, codecs |-> <<"codecs", i>>,
     audioBitrate |-> b, audioSampleRate |-> <<"sampleRate", i>>]

\* The non-empty lists of audio-only formats of up to MaxFormats formats.
FormatLists ==
    {[i \in 1..Len(bs) |-> Format(i, bs[i])] : bs \in SeqsUpTo(Bitrates, MaxFormats)}

\* The handler from the reduce to res.json, on a non-empty list.
DirectLinkSelect ==
    /\ calc.fn = "bestFormat"
    /\ ~calc.done
    /\ calc' = [calc EXCEPT !.done = TRUE, !.output = DirectLinkBody(calc.input)]
    /\ UNCHANGED <<videoInfoCache, now, resolveSeq, req, dl, batch, disk, admin>>

(***************************************************************************)
(* sanitizeFilename, of both servers.                                      *)
(***************************************************************************)
LowerSeq == <<"a","b","c","d","e","f","g","h","i","j","k","l","m",
              "n","o","p","q","r","s","t","u","v","w","x","y","z">>
UpperSeq == <<"A","B","C","D","E","F","G","H","I","J","K","L","M",
              "N","O","P","Q","R","S","T","U","V","W","X","Y","Z">>

\* \w, and the class [\w\s-] whose complement the first replace removes.
Word == Lower \cup Upper \cup Digit \cup {"_"}

Kept == Word \cup White \cup {"-"}

\* .substring(0, 100)
FILENAME_MAX == 100

\* .replace(/[^\w\s-]/g, ''): the characters outside the class are dropped.
Strip(s) == SelectSeq(s, LAMBDA c : c \in Kept)

\* The end of the match of /[-\s]+/ that starts at position i of s, and the
\* start of the next match from position i on (or the end of s): the first
\* position from i on that holds a character outside, or inside, the class.
RunEnd(s, i) ==
    CHOOSE j \in i..(Len(s) + 1) :
        /\ j = Len(s) + 1 \/ s[j] \notin White \cup {"-"}
        /\ \A m \in i..(j - 1) : s[m] \in White \cup {"-"}

NextRun(s, i) ==
    CHOOSE j \in i..(Len(s) + 1) :
        /\ j = Len(s) + 1 \/ s[j] \in White \cup {"-"}
        /\ \A m \in i..(j - 1) : s[m] \notin White \cup {"-"}

\* .replace(/[-\s]+/g, '_'): from the left, each longest run of '-' and white
\* space becomes one underscore, and what lies between the runs is kept.
RECURSIVE Collapse(_, _)
Collapse(s, i) ==
    IF i > Len(s) THEN << >>
    ELSE IF s[i] \in White \cup {"-"} THEN <<"_">> \o Collapse(s, RunEnd(s, i))
    ELSE SubSeq(s, i, NextRun(s, i) - 1) \o Collapse(s, NextRun(s, i))

\* .toLowerCase(), on the characters of the model.
LowerChar(c) ==
    IF c \in Upper THEN LowerSeq[CHOOSE i \in 1..Len(UpperSeq) : UpperSeq[i] = c] ELSE c

toLowerCase(s) == [i \in 1..Len(s) |-> LowerChar(s[i])]

\* .substring(0, n)
substring(s, n) == SubSeq(s, 1, IF Len(s) < n THEN Len(s) ELSE n)

\* sanitizeFilename of part_000.
sanitizeFilename(filename) ==
    substring(toLowerCase(Collapse(Strip(filename), 1)), FILENAME_MAX)

\* sanitizeFilename of index.js: .replace(/[^a-z0-9]/gi, '_').toLowerCase()
sanitizeFilenameFirst(filename) ==
    toLowerCase([i \in 1..Len(filename) |->
                    IF filename[i] \in Lower \cup Upper \cup Digit THEN filename[i] ELSE "_"])

\* The characters of the titles, the titles of up to MaxTitleLen characters,
\* and each of them behind 99 letters, so that the 100th character falls
\* among its own.
TitleChars == {"A", "b", "7", "_", "-", " ", "!"}

ShortTitles == {<< >>} \cup SeqsUpTo(TitleChars, MaxTitleLen)

Titles == ShortTitles \cup {Repeat("Z", FILENAME_MAX - 1) \o t : t \in ShortTitles}

\* const sanitizedTitle = sanitizeFilename(videoTitle), in either server.
Sanitize ==
    /\ calc.fn = "sanitizeFilename"
    /\ ~calc.done
    /\ calc' = [calc EXCEPT !.done = TRUE,
                            !.output = IF calc.input.server = "optimized"
                                       THEN sanitizeFilename(calc.input.title)
                                       ELSE sanitizeFilenameFirst(calc.input.title)]
    /\ UNCHANGED <<videoInfoCache, now, resolveSeq, req, dl, batch, disk, admin>>

(***************************************************************************)
(* The janitor of part_000: setInterval(cleanUpOldFiles, 30 minutes).      *)
(* The janitor's clock counts quarters of an hour.                         *)
(***************************************************************************)
\* 30 * 60 * 1000 ms, in quarters of an hour.
SWEEP_PERIOD == 2

\* const maxAge = 24 * 60 * 60 * 1000, in quarters of an hour.
MAX_AGE == 96

FileNames == {"a.mp3", "b.mp3"}

NoFile == [exists |-> FALSE, mtime |-> 0]

File(t) == [exists |-> TRUE, mtime |-> t]

\* The downloads directory and the timer when the server starts: the timer
\* is armed for one period later, no sweep is under way (now is the
\* Date.now() of the sweep, pending the files whose fs.stat has not called
\* back, sweeps the number of sweeps started, unlinked the files the sweep
\* has removed). server is the server that runs, faults counts the
\* file-system operations of the janitor that failed, thrown tells that an
\* exception has left the timer's callback, and skipped is the files of the
\* directory listing that the sweep in which it happened never looked at.
NoDisk == [server |-> "optimized",
           clock |-> 0, nextSweep |-> SWEEP_PERIOD, sweeps |-> 0,
           now |-> 0, pending |-> {}, unlinked |-> {},
           faults |-> 0, thrown |-> FALSE, skipped |-> {},
           files |-> [f \in FileNames |-> NoFile]]

\* The modification times of the files found at the start: around 24 hours
\* before the first sweeps, and the start itself.
StartTimes == {0 - MAX_AGE - 1, 0 - MAX_AGE, 0 - MAX_AGE + 1, 0 - MAX_AGE + 2,
               0 - MAX_AGE + 3, 0 - MAX_AGE + 4, 0}

\* The timer fires: cleanUpOldFiles reads the directory and the clock, and
\* asks for the stat of every file.
cleanUpOldFiles ==
    /\ disk.server = "optimized"
    /\ disk.clock = disk.nextSweep
    /\ disk' = [disk EXCEPT !.nextSweep = disk.nextSweep + SWEEP_PERIOD,
                            !.sweeps = disk.sweeps + 1,
                            !.now = disk.clock,
                            !.unlinked = {},
                            !.pending = {f \in FileNames : disk.files[f].exists}]
    /\ UNCHANGED <<videoInfoCache, now, resolveSeq, req, dl, batch, calc, admin>>

\* A variant of StatCallback with >= for >.
StatCallbackInclusive(f) ==
    /\ f \in disk.pending
    /\ disk' = [disk EXCEPT
                  !.pending = disk.pending \ {f},
                  !.unlinked = IF disk.files[f].exists
                                  /\ disk.now - disk.files[f].mtime >= MAX_AGE
                               THEN disk.unlinked \cup {f} ELSE disk.unlinked,
                  !.files[f] = IF disk.files[f].exists
                                  /\ disk.now - disk.files[f].mtime >= MAX_AGE
                               THEN NoFile ELSE disk.files[f]]
    /\ UNCHANGED <<videoInfoCache, now, resolveSeq, req, dl, batch, calc, admin>>

\* fs.stat calls back for file f: if (!err && now - stats.mtime.getTime() >
\* maxAge) fs.unlink(filePath, ...). err is set when the file is gone.
StatCallback(f) ==
    /\ f \in disk.pending
    /\ disk' = [disk EXCEPT
                  !.pending = disk.pending \ {f},
                  !.unlinked = IF disk.files[f].exists
                                  /\ disk.now - disk.files[f].mtime > MAX_AGE
                               THEN disk.unlinked \cup {f} ELSE disk.unlinked,
                  !.files[f] = IF disk.files[f].exists
                                  /\ disk.now - disk.files[f].mtime > MAX_AGE
                               THEN NoFile ELSE disk.files[f]]
    /\ UNCHANGED <<videoInfoCache, now, resolveSeq, req, dl, batch, calc, admin>>

\* A file of the directory is written: it is there, modified now.
FileWritten(f) ==
    /\ disk.files[f] # File(disk.clock)
    /\ disk' = [disk EXCEPT !.files[f] = File(disk.clock)]
    /\ UNCHANGED <<videoInfoCache, now, resolveSeq, req, dl, batch, calc, admin>>

\* A quarter of an hour passes: the timer has fired if it was due, and the
\* stats asked for have called back.
DiskTick ==
    /\ disk.clock < MaxClock
    /\ disk.clock < disk.nextSweep
    /\ disk.pending = {}
    /\ disk' = [disk EXCEPT !.clock = disk.clock + 1]
    /\ UNCHANGED <<videoInfoCache, now, resolveSeq, req, dl, batch, calc, admin>>

\* The timer fires and fs.readdirSync throws (the directory cannot be read):
\* the catch block logs the error and the sweep is over.
cleanUpOldFilesUnreadable ==
    /\ disk.server = "optimized"
    /\ disk.clock = disk.nextSweep
    /\ disk' = [disk EXCEPT !.nextSweep = disk.nextSweep + SWEEP_PERIOD,
                            !.sweeps = disk.sweeps + 1,
                            !.unlinked = {},
                            !.pending = {},
                            !.faults = disk.faults + 1]
    /\ UNCHANGED <<videoInfoCache, now, resolveSeq, req, dl, batch, calc, admin>>

\* The operations of a sweep on a file that can fail.
FileFaults == {"stat", "unlink"}

\* fs.stat calls back for file f and an operation fails. "stat": err is set,
\* and the promise resolves. "unlink": the file is old enough, fs.unlink fails
\* and its callback, which ignores the error, resolves the promise.
StatCallbackFault(f, fault) ==
    /\ f \in disk.pending
    /\ fault = "unlink"
       => disk.files[f].exists /\ disk.now - disk.files[f].mtime > MAX_AGE
    /\ disk' = [disk EXCEPT !.pending = disk.pending \ {f},
                            !.faults = disk.faults + 1]
    /\ UNCHANGED <<videoInfoCache, now, resolveSeq, req, dl, batch, calc, admin>>

\* A file of the directory is removed by someone else than the janitor, as
\* the 'error' handler of POST /download-mp3 does with its output file.
FileRemoved(f) ==
    /\ disk.files[f].exists
    /\ disk' = [disk EXCEPT !.files[f] = NoFile]
    /\ UNCHANGED <<videoInfoCache, now, resolveSeq, req, dl, batch, calc, admin>>

(***************************************************************************)
(* The janitor of index.js: setInterval(cleanUpOldFiles, one hour), with a *)
(* synchronous sweep.                                                      *)
(***************************************************************************)
\* 60 * 60 * 1000 ms, in quarters of an hour.
SWEEP_PERIOD_FIRST == 4

\* The order in which fs.readdirSync lists the directory.
FileOrder == <<"a.mp3", "b.mp3">>

Listing(d) == SelectSeq(FileOrder, LAMBDA f : d.files[f].exists)

\* What goes wrong in a sweep: nothing, the reading of the directory, or one
\* operation on one file.
NoFault == <<"none", "">>

SweepFaults ==
    {NoFault, <<"readdir", "">>} \cup {<<k, f>> : k \in FileFaults, f \in FileNames}

\* An exception leaves cleanUpOldFiles while it is at the i-th file of the
\* listing: nothing catches it, the files after the i-th are not looked at.
Throw(d, listing, i) ==
    [d EXCEPT !.thrown = TRUE,
              !.faults = d.faults + 1,
              !.skipped = {listing[j] : j \in (i + 1)..Len(listing)}]

\* files.forEach(file => { statSync; if (now - mtime > maxAge) unlinkSync }),
\* from the i-th file of the listing on.
RECURSIVE forEach(_, _, _, _)
forEach(d, listing, i, fault) ==
    IF i > Len(listing) THEN d
    ELSE LET f == listing[i]
             old == d.now - d.files[f].mtime > MAX_AGE
         IN  IF fault = <<"stat", f>> \/ (old /\ fault = <<"unlink", f>>)
             THEN Throw(d, listing, i)
             ELSE forEach(IF old
                          THEN [d EXCEPT !.files[f] = NoFile,
                                         !.unlinked = d.unlinked \cup {f}]
                          ELSE d,
                          listing, i + 1, fault)

\* The timer of index.js fires: the whole sweep is one synchronous call. An
\* exception that leaves it leaves the timer's callback; no handler of
\* 'uncaughtException' is installed, so the process ends there.
cleanUpOldFilesFirst(fault) ==
    /\ disk.server = "first"
    /\ ~disk.thrown
    /\ disk.clock = disk.nextSweep
    /\ LET d0 == [disk EXCEPT !.nextSweep = disk.nextSweep + SWEEP_PERIOD_FIRST,
                              !.sweeps = disk.sweeps + 1,
                              !.unlinked = {}]
       IN  disk' = IF fault = <<"readdir", "">>
                   THEN Throw(d0, << >>, 0)
                   ELSE forEach([d0 EXCEPT !.now = disk.clock], Listing(disk), 1, fault)
    /\ UNCHANGED <<videoInfoCache, now, resolveSeq, req, dl, batch, calc, admin>>

\* No request of POST /clear-cache yet. Of the last such request, status is
\* the program's; the other fields record what it did and found: cleared
\* that there was one, size the size of the Map when it answered, after the
\* number of resolver results returned by then, and inFlight the requests
\* that were waiting for the resolver then.
NoAdmin == [cleared |-> FALSE, status |-> 0, size |-> 0, after |-> 0, inFlight |-> {}]

\* A variant of ClearCache that removes the expired entries only.
ClearCacheExpiredOnly ==
    /\ videoInfoCache # << >>
    /\ videoInfoCache' = SelectSeq(videoInfoCache, LAMBDA e : now - e.timestamp < CACHE_TTL)
    /\ admin' = [cleared |-> TRUE, status |-> 200,
                 size |-> Len(videoInfoCache'),
                 after |-> resolveSeq,
                 inFlight |-> {r \in Req : req[r].pc = "resolving"}]
    /\ UNCHANGED <<now, resolveSeq, req, dl, batch, calc, disk>>

\* POST /clear-cache: videoInfoCache.clear(), then the answer. A request that
\* finds the Map empty changes nothing in the program and is left out.
ClearCache ==
    /\ videoInfoCache # << >>
    /\ videoInfoCache' = << >>
    /\ admin' = [cleared |-> TRUE, status |-> 200,
                 size |-> Len(videoInfoCache'),
                 after |-> resolveSeq,
                 inFlight |-> {r \in Req : req[r].pc = "resolving"}]
    /\ UNCHANGED <<now, resolveSeq, req, dl, batch, calc, disk>>

\* Time passes.
Tick ==
    /\ now < MaxTime
    /\ now' = now + 1
    /\ UNCHANGED <<videoInfoCache, resolveSeq, req, dl, batch, calc, disk, admin>>

Init ==
    /\ videoInfoCache = << >>
    /\ now = 0
    /\ resolveSeq = 0
    /\ req = [r \in Req |-> IdleReq]
    /\ dl = [d \in Dl |-> IdleDl]
    /\ batch = IdleBatch
    /\ calc = NoCalc
    /\ disk = NoDisk
    /\ admin = NoAdmin

\* The server, about to choose among the audio-only formats of a video.
InitFormats ==
    /\ videoInfoCache = << >>
    /\ now = 0
    /\ resolveSeq = 0
    /\ req = [r \in Req |-> IdleReq]
    /\ dl = [d \in Dl |-> IdleDl]
    /\ batch = IdleBatch
    /\ calc \in {[fn |-> "bestFormat", input |-> fs, done |-> FALSE, output |-> << >>] :
                    fs \in FormatLists}
    /\ disk = NoDisk
    /\ admin = NoAdmin

\* A server, about to sanitize the title of a video.
InitSanitize ==
    /\ videoInfoCache = << >>
    /\ now = 0
    /\ resolveSeq = 0
    /\ req = [r \in Req |-> IdleReq]
    /\ dl = [d \in Dl |-> IdleDl]
    /\ batch = IdleBatch
    /\ calc \in {[fn |-> "sanitizeFilename", input |-> [server |-> srv, title |-> t],
                   done |-> FALSE, output |-> << >>] : srv \in Servers, t \in Titles}
    /\ disk = NoDisk
    /\ admin = NoAdmin

\* The server starts on a downloads directory that may hold files.
InitJanitor ==
    /\ videoInfoCache = << >>
    /\ now = 0
    /\ resolveSeq = 0
    /\ req = [r \in Req |-> IdleReq]
    /\ dl = [d \in Dl |-> IdleDl]
    /\ batch = IdleBatch
    /\ calc = NoCalc
    /\ disk \in {[NoDisk EXCEPT !.files = fs] :
                    fs \in [FileNames -> {NoFile} \cup {File(t) : t \in StartTimes}]}
    /\ admin = NoAdmin

\* Either server starts on a downloads directory that may hold files.
InitJanitorFaults ==
    /\ videoInfoCache = << >>
    /\ now = 0
    /\ resolveSeq = 0
    /\ req = [r \in Req |-> IdleReq]
    /\ dl = [d \in Dl |-> IdleDl]
    /\ batch = IdleBatch
    /\ calc = NoCalc
    /\ disk \in {[NoDisk EXCEPT !.server = srv,
                                !.nextSweep = IF srv = "first" THEN SWEEP_PERIOD_FIRST
                                              ELSE SWEEP_PERIOD,
                                !.files = fs] :
                    srv \in Servers,
                    fs \in [FileNames -> {NoFile} \cup {File(t) : t \in StartTimes}]}
    /\ admin = NoAdmin

\* The well-formed identifiers are interchangeable, so the clients ask for
\* them in one order of first use: IdA, then IdB, then IdC.
Requested == {req[r].videoId : r \in {p \in Req : req[p].pc # "idle"}}

NextIds ==
    {IdA} \cup {id \in {IdB} : IdA \in Requested}
          \cup {id \in {IdC} : IdB \in Requested}

\* The cached server under concurrent requests: clients ask for the metadata
\* of well-formed identifiers while time passes.
Next ==
    \/ \E r \in Req, id \in NextIds : HandlerStart(r, "video-info", id)
    \/ \E r \in Req : HandlerResolved(r, TRUE)
    \/ \E r \in Req, err \in ResolverErrors : HandlerRejected(r, err)
    \/ Tick

Spec == Init /\ [][Next]_vars

\* The same, with an operator who clears the cache.
NextClear ==
    \/ \E r \in Req, id \in NextIds : HandlerStart(r, "video-info", id)
    \/ \E r \in Req : HandlerResolved(r, TRUE)
    \/ \E r \in Req, err \in ResolverErrors : HandlerRejected(r, err)
    \/ Tick
    \/ ClearCache

SpecClear == Init /\ [][NextClear]_vars

\* Every request/response endpoint of both servers, with well-formed and
\* malformed identifiers.
NextEndpoints ==
    \/ \E r \in 1..MaxEndpointReq, e \in Endpoints, id \in VideoIds : HandlerStart(r, e, id)
    \/ \E r \in 1..MaxEndpointReq, audio \in BOOLEAN : HandlerResolved(r, audio)
    \/ \E r \in 1..MaxEndpointReq, err \in ResolverErrors : HandlerRejected(r, err)
    \/ \E r \in 1..MaxEndpointReq : ConvertEnd(r)
    \/ \E r \in 1..MaxEndpointReq : ConvertError(r)

SpecEndpoints == Init /\ [][NextEndpoints]_vars

\* The streaming downloads of both servers, with clients that may go away.
NextDownload ==
    \/ \E d \in Dl, srv \in Servers, id \in {IdA, IdForeign} : DownloadStart(d, srv, id)
    \/ \E d \in Dl, audio \in BOOLEAN : DownloadResolved(d, audio)
    \/ \E d \in Dl, err \in ResolverErrors : DownloadRejected(d, err)
    \/ \E d \in Dl : RetryTimer(d)
    \/ \E d \in Dl : ClientClose(d)
    \/ \E d \in Dl : FfmpegOutput(d)
    \/ \E d \in Dl : FfmpegEnd(d)
    \/ \E d \in Dl : FfmpegError(d)
    \/ \E d \in Dl : StreamError(d)
    \/ \E d \in Dl : PipeEnd(d)

SpecDownload == Init /\ [][NextDownload]_vars

\* The same, with an event loop that delivers the end of a failed
\* transcoder's output.
SpecDownloadLive == SpecDownload /\ \A d \in Dl : WF_vars(PipeEnd(d))

\* Batch requests, one after the other, over the shared cache.
NextBatch ==
    \/ \E v \in BatchBodies : BatchStart(v)
    \/ \E i \in 1..BATCH_MAX, audio \in BOOLEAN : BatchItemResolved(i, audio)
    \/ \E i \in 1..BATCH_MAX, err \in ResolverErrors : BatchItemRejected(i, err)
    \/ BatchRespond
    \/ BatchNext

SpecBatch == Init /\ [][NextBatch]_vars

\* Every call site of the resolver other than the streaming download: one
\* request at a time on the request/response endpoints of both servers, and
\* batch requests, over the shared cache.
CallSiteBodies ==
    {[type |-> "array", items |-> a] : a \in SeqsUpTo({IdA, IdForeign}, MaxCallSiteBatchLen)}

NextCallSites ==
    \/ \E e \in Endpoints, id \in {IdA, IdForeign} : HandlerStart(1, e, id)
    \/ \E audio \in BOOLEAN : HandlerResolved(1, audio)
    \/ \E err \in ResolverErrors : HandlerRejected(1, err)
    \/ ConvertEnd(1)
    \/ ConvertError(1)
    \/ \E v \in CallSiteBodies : BatchStart(v)
    \/ \E i \in 1..BATCH_MAX, audio \in BOOLEAN : BatchItemResolved(i, audio)
    \/ \E i \in 1..BATCH_MAX, err \in ResolverErrors : BatchItemRejected(i, err)
    \/ BatchRespond
    \/ BatchNext

SpecCallSites == Init /\ [][NextCallSites]_vars

\* Everything that touches the cache at once: a request for metadata, the
\* items of a batch request, the passing of time and POST /clear-cache.
CacheBodies ==
    {[type |-> "array", items |-> a] : a \in SeqsUpTo({IdB, IdC}, MaxCallSiteBatchLen)}

NextCache ==
    \/ \E id \in GoodIds : HandlerStart(1, "video-info", id)
    \/ HandlerResolved(1, TRUE)
    \/ \E err \in ResolverErrors : HandlerRejected(1, err)
    \/ \E v \in CacheBodies : BatchStart(v)
    \/ \E i \in 1..BATCH_MAX, audio \in BOOLEAN : BatchItemResolved(i, audio)
    \/ \E i \in 1..BATCH_MAX, err \in ResolverErrors : BatchItemRejected(i, err)
    \/ BatchRespond
    \/ Tick
    \/ ClearCache

SpecCache == Init /\ [][NextCache]_vars

\* The choice of the best audio format, on every list of formats.
NextFormats == DirectLinkSelect

SpecFormats == InitFormats /\ [][NextFormats]_vars

\* The sanitization of a title, on every title and in both servers.
NextSanitize == Sanitize

SpecSanitize == InitSanitize /\ [][NextSanitize]_vars

\* The janitor at work while files are written.
NextJanitor ==
    \/ cleanUpOldFiles
    \/ \E f \in FileNames : StatCallback(f)
    \/ \E f \in FileNames : FileWritten(f)
    \/ DiskTick

SpecJanitor == InitJanitor /\ [][NextJanitor]_vars

\* Every endpoint that answers after an await, together: a request on the
\* request/response endpoints of both servers, a streaming download of
\* either server with its stream, transcoder and connection events, and a
\* batch request, over the shared cache.
NextResponses ==
    \/ \E e \in Endpoints, id \in {IdA, IdForeign} : HandlerStart(1, e, id)
    \/ \E audio \in BOOLEAN : HandlerResolved(1, audio)
    \/ \E err \in ResolverErrors : HandlerRejected(1, err)
    \/ ConvertEnd(1)
    \/ ConvertError(1)
    \/ \E srv \in Servers, id \in {IdA, IdForeign} : DownloadStart(1, srv, id)
    \/ \E audio \in BOOLEAN : DownloadResolved(1, audio)
    \/ \E err \in ResolverErrors : DownloadRejected(1, err)
    \/ RetryTimer(1)
    \/ ClientClose(1)
    \/ FfmpegOutput(1)
    \/ FfmpegEnd(1)
    \/ FfmpegError(1)
    \/ StreamError(1)
    \/ PipeEnd(1)
    \/ \E v \in CallSiteBodies : BatchStart(v)
    \/ \E i \in 1..BATCH_MAX, audio \in BOOLEAN : BatchItemResolved(i, audio)
    \/ \E i \in 1..BATCH_MAX, err \in ResolverErrors : BatchItemRejected(i, err)
    \/ BatchRespond

SpecResponses == Init /\ [][NextResponses]_vars

\* The janitors of both servers at work on a file system that fails, while
\* files are written and removed.
NextJanitorFaults ==
    \/ cleanUpOldFiles
    \/ cleanUpOldFilesUnreadable
    \/ \E f \in FileNames : StatCallback(f)
    \/ \E f \in FileNames, fault \in FileFaults : StatCallbackFault(f, fault)
    \/ \E fault \in SweepFaults : cleanUpOldFilesFirst(fault)
    \/ \E f \in FileNames : FileWritten(f)
    \/ \E f \in FileNames : FileRemoved(f)
    \/ DiskTick

SpecJanitorFaults == InitJanitorFaults /\ [][NextJanitorFaults]_vars

(***************************************************************************)
(* Properties of the streaming download, checked under SpecDownload.       *)
(***************************************************************************)
\* C1: once the close of the client connection of a download has been
\* handled, whenever it came (while the metadata was being resolved, before
\* the transcoding process was started, or while it ran), no transcoding
\* process of that request is running.
C1_NoTranscoderRunsAfterClose ==
    \A d \in Dl : dl[d].closed => dl[d].ffmpeg # "running"

\* C2: after the client connection of a download has closed, nothing is
\* written to its response: no transcoder output, no status and no JSON body.
C2_NoWriteAfterClose ==
    \A d \in Dl : dl[d].lateWrites = {}

(***************************************************************************)
(* Properties of the batch endpoint, checked under SpecBatch.              *)
(***************************************************************************)
Items == batch.videoIds.items

Answered200 == batch.pc = "done" /\ batch.status = 200

\* C3: every failure record of the batch response carries the identifier of
\* the item that failed and that item's failure reason: for the rejected item
\* at input position i, videoId is videoIds[i].
C3_FailureRecordCarriesItsIdentifier ==
    Answered200 =>
        LET ko == Positions(batch.results, "rejected", 1)
        IN  /\ Len(batch.failed) = Len(ko)
            /\ \A j \in 1..Len(ko) :
                  /\ batch.failed[j].videoId = Items[ko[j]]
                  /\ batch.failed[j].error = batch.results[ko[j]].reason

\* C4: a batch of 1 to 10 items is answered 200 'batch_queued' however many
\* items fail; every item gives exactly one record, a success record when it
\* is well-formed and resolves (or is cached) and a failure record otherwise,
\* whatever the other items do, and successful and failed together count
\* total = |videoIds| records.
C4_EveryItemGivesOneRecord ==
    ( /\ batch.pc = "done"
      /\ batch.videoIds.type = "array"
      /\ Len(Items) \in 1..BATCH_MAX )
    => LET ok == Positions(batch.results, "fulfilled", 1)
           ko == Positions(batch.results, "rejected", 1)
       IN  /\ batch.status = 200
           /\ batch.body = "batch_queued"
           /\ batch.total = Len(Items)
           /\ Len(batch.successful) + Len(batch.failed) = batch.total
           /\ Len(batch.successful) = Len(ok)
           /\ Len(batch.failed) = Len(ko)
           /\ \A j \in 1..Len(ok) :
                 /\ batch.successful[j] = batch.results[ok[j]].value
                 /\ batch.successful[j].videoId = Items[ok[j]]
                 /\ batch.successful[j].info.id = Items[ok[j]]
                 /\ validateVideoId(Items[ok[j]])
           /\ \A j \in 1..Len(ko) :
                 /\ batch.failed[j].error = batch.results[ko[j]].reason
                 /\ IF validateVideoId(Items[ko[j]])
                    THEN batch.failed[j].error \in ResolverErrors
                    ELSE batch.failed[j].error = <<"Invalid video ID", Items[ko[j]]>>

\* A batch of 10 items, all of which failed, one of them at the resolver.
C4_Witness ==
    /\ Answered200
    /\ Len(Items) = BATCH_MAX
    /\ batch.successful = << >>
    /\ Len(batch.failed) = BATCH_MAX
    /\ \E j \in 1..Len(batch.failed) : batch.failed[j].error \in ResolverErrors

\* C5: a batch request whose videoIds is missing, no array, empty or longer
\* than 10 is answered 400 at once: no item is validated, the cache is not
\* looked at and the resolver is not called.
C5_MalformedBatchRejectedUpFront ==
    ( /\ batch.pc # "idle"
      /\ \/ batch.videoIds.type # "array"
         \/ Len(Items) = 0
         \/ Len(Items) > BATCH_MAX )
    => /\ batch.pc = "done"
       /\ batch.status = 400
       /\ batch.results = << >>
       /\ batch.validated = 0
       /\ batch.lookups = 0
       /\ batch.calls = 0

C5_Witness ==
    /\ batch.pc = "done"
    /\ batch.videoIds.type = "array"
    /\ Len(Items) = BATCH_MAX + 1
    /\ batch.status = 400
    /\ batch.calls = 0

(***************************************************************************)
(* Properties of identifier validation, checked under SpecEndpoints.       *)
(***************************************************************************)
\* C6: on every endpoint that takes an identifier, a malformed videoId is
\* answered 400 without a cache lookup and without a resolver call, and every
\* key of the cache is a well-formed identifier.
C6_MalformedIdentifierRejected ==
    /\ \A r \in Req :
          (req[r].pc # "idle" /\ ~validateVideoId(req[r].videoId))
          => /\ req[r].pc = "done"
             /\ req[r].status = 400
             /\ req[r].lookups = 0
             /\ req[r].calls = 0
    /\ \A k \in CacheKeys(videoInfoCache) : validateVideoId(k)

(***************************************************************************)
(* Properties of the metadata cache, checked under Spec.                   *)
(***************************************************************************)
Entries(c) == {c[i] : i \in 1..Len(c)}

\* The requests that stored metadata for identifier id.
Writers(id) ==
    {r \in Req : req[r].pc = "done" /\ req[r].videoId = id
                 /\ ~req[r].hit /\ req[r].status = 200}

\* r takes its first step in this transition.
Starts(r) == req[r].pc = "idle" /\ req'[r].pc # "idle"

\* r's resolver call fulfils in this transition.
Fulfils(r) == req[r].pc = "resolving" /\ req'[r].pc = "done" /\ req'[r].status = 200

\* C7: a getCachedVideoInfo call made while the cache holds an entry for the
\* identifier that is younger than the TTL returns the stored metadata, calls
\* the resolver not at all and leaves the cache as it was; so a request and a
\* later request served from the entry the first one stored make at most one
\* resolver call between them.
C7_FreshEntryServedWithoutResolver ==
    [][\A r \in Req : \A e \in Entries(videoInfoCache) :
          (Starts(r) /\ e.key = req'[r].videoId /\ now - e.timestamp < CACHE_TTL)
          => /\ req'[r].pc = "done"
             /\ req'[r].info = e.data
             /\ req'[r].calls = 0
             /\ resolveSeq' = resolveSeq
             /\ videoInfoCache' = videoInfoCache
             /\ \A p \in Writers(e.key) :
                    req[p].info = e.data => req[p].calls + req'[r].calls <= 1]_vars

C7_Witness ==
    \E r, p \in Req :
        /\ req[p].pc = "done" /\ ~req[p].hit /\ req[p].calls = 1
        /\ req[r].pc = "done" /\ req[r].hit /\ req[r].calls = 0
        /\ req[r].videoId = req[p].videoId
        /\ req[r].info = req[p].info
        /\ req[r].age > 0

\* C8: a getCachedVideoInfo call made when the cache holds no entry for the
\* identifier, or one whose age is at least the TTL, calls the resolver
\* exactly once; when the call fulfils, the fresh metadata is stored under the
\* identifier with the time of the store, so that the entry is fresh at that
\* moment; and metadata served from the cache is never as old as the TTL.
C8_MissResolvesOnceAndStores ==
    /\ [](\A r \in Req : req[r].hit => req[r].age < CACHE_TTL)
    /\ [][\A r \in Req :
            /\ ( /\ Starts(r)
                 /\ \A e \in Entries(videoInfoCache) :
                        e.key = req'[r].videoId => now - e.timestamp >= CACHE_TTL )
               => /\ req'[r].pc = "resolving"
                  /\ req'[r].calls = 1
                  /\ videoInfoCache' = videoInfoCache
            /\ (req[r].pc = "resolving" /\ req'[r].pc = "done") => req'[r].calls = 1
            /\ Fulfils(r)
               => /\ req'[r].info = Metadata(req[r].videoId, resolveSeq', TRUE)
                  /\ resolveSeq' = resolveSeq + 1
                  /\ \E e \in Entries(videoInfoCache') :
                        /\ e.key = req[r].videoId
                        /\ e.data = req'[r].info
                        /\ e.timestamp = now
                        /\ now' - e.timestamp < CACHE_TTL]_vars

C8_Witness ==
    \E r \in Req :
        /\ req[r].pc = "done" /\ req[r].stale /\ req[r].status = 200
        /\ req[r].calls = 1
        /\ \E e \in Entries(videoInfoCache) :
              e.key = req[r].videoId /\ e.data = req[r].info /\ e.timestamp = now
        /\ now >= CACHE_TTL

\* C9: a store of a new identifier into a full cache removes exactly one
\* entry, the one whose key was inserted first among those present, and never
\* the entry just stored; a cache hit leaves the cache, and with it the order
\* of eviction, unchanged.
C9_EvictsFirstInserted ==
    [][/\ ( /\ Len(videoInfoCache) = MaxCacheSize
            /\ CacheKeys(videoInfoCache') \ CacheKeys(videoInfoCache) # {} )
          => LET gone == {e \in Entries(videoInfoCache) :
                             e.key \notin CacheKeys(videoInfoCache')}
             IN  /\ Cardinality(gone) = 1
                 /\ \A e \in gone : \A f \in Entries(videoInfoCache) : e.ins <= f.ins
                 /\ Len(videoInfoCache') = MaxCacheSize
       /\ \A r \in Req :
            /\ Fulfils(r) => req[r].videoId \in CacheKeys(videoInfoCache')
            /\ (~req[r].hit /\ req'[r].hit) => videoInfoCache' = videoInfoCache]_vars

\* The first identifier stored was hit once the cache was full, and the next
\* store of a new identifier evicted it all the same.
C9_Witness ==
    /\ resolveSeq = MaxCacheSize + 1
    /\ Len(videoInfoCache) = MaxCacheSize
    /\ \E h \in Req :
          /\ req[h].hit
          /\ req[h].info.ver = 1
          /\ req[h].full
          /\ req[h].videoId \notin CacheKeys(videoInfoCache)

\* C10: every request that finds no fresh entry has a resolver call of its
\* own in flight, whatever the other requests for the same identifier are
\* doing; every fulfilled call stores its result; the cache never holds two
\* entries for one identifier, and an entry is always the metadata and the
\* timestamp of the request that stored last for that identifier.
C10_NoCoalescingLastWriterWins ==
    /\ [](\A r \in Req : req[r].pc = "resolving" => req[r].calls = 1)
    /\ [](\A i, j \in 1..Len(videoInfoCache) :
             videoInfoCache[i].key = videoInfoCache[j].key => i = j)
    /\ [](\A e \in Entries(videoInfoCache) :
             \E w \in Writers(e.key) :
                 /\ \A x \in Writers(e.key) : req[x].info.ver <= req[w].info.ver
                 /\ e.data = req[w].info
                 /\ e.timestamp = req[w].storedAt)
    /\ [][\A r \in Req :
            Fulfils(r) => \E e \in Entries(videoInfoCache') :
                              /\ e.key = req[r].videoId
                              /\ e.data = req'[r].info
                              /\ e.timestamp = now]_vars

\* Two requests for one identifier were in flight together, both called the
\* resolver, and the cache holds what the later one stored.
C10_Witness ==
    \E a, b \in Req :
        /\ a # b
        /\ req[a].videoId = req[b].videoId
        /\ req[a].pc = "done" /\ req[a].status = 200 /\ ~req[a].hit /\ req[a].calls = 1
        /\ req[b].pc = "done" /\ req[b].status = 200 /\ ~req[b].hit /\ req[b].calls = 1
        /\ req[b].overlap
        /\ req[a].info.ver < req[b].info.ver
        /\ req[a].storedAt < req[b].storedAt
        /\ \E e \in Entries(videoInfoCache) :
              e.data = req[b].info /\ e.timestamp = req[b].storedAt

(***************************************************************************)
(* Properties of the answers, checked under Spec and SpecEndpoints.        *)
(***************************************************************************)
\* C11: the cached field of a 200 answer of GET /video-info is true exactly
\* when the request was served from the cache without a resolver call, and
\* false when the request called the resolver.
C11_CachedFlagTellsCacheHit ==
    \A r \in Req :
        (req[r].endpoint = "video-info" /\ req[r].pc = "done" /\ req[r].status = 200)
            => (req[r].cached <=> (req[r].hit /\ req[r].calls = 0))

(***************************************************************************)
(* Properties of the resolver calls, checked under SpecDownload,           *)
(* SpecEndpoints and SpecBatch.                                            *)
(***************************************************************************)
\* A download whose metadata fetch has failed for good: the catch block has
\* answered 500 and no transcoder was ever built.
FetchFailed(d) ==
    dl[d].pc = "done" /\ dl[d].status = 500 /\ dl[d].ffmpeg = "none"

\* C12: the metadata fetch of a streaming download calls the resolver at most
\* 3 times, waits only between two attempts (one wait less than attempts
\* while the fetch goes on, at most 2, none after the last failure), makes no
\* call once it has the metadata, and reports a failure to the client only
\* once the third attempt has failed.
C12_DownloadFetchRetriesThreeTimes ==
    \A d \in Dl :
        /\ dl[d].calls <= RETRIES
        /\ dl[d].waits <= RETRIES - 1
        /\ dl[d].pc = "resolving" => dl[d].waits = dl[d].calls - 1
        /\ dl[d].pc = "waiting" => dl[d].waits = dl[d].calls
        /\ FetchFailed(d) => dl[d].calls = RETRIES /\ dl[d].waits = RETRIES - 1

\* C13: a request on video-info, formats, direct-link or POST /download-mp3
\* (of either server) and a batch item call the resolver at most once; a
\* rejection of that call is answered in the same step (404 or 500 for a
\* request, a rejected item carrying the resolver's error for a batch item),
\* with no further call and no wait.
C13_OtherCallSitesResolveOnce ==
    /\ [](\A r \in Req :
             /\ req[r].calls <= 1
             /\ req[r].pc \in {"idle", "resolving", "converting", "done"}
             /\ req[r].pc = "resolving" => req[r].calls = 1)
    /\ [](batch.pc = "running" =>
             batch.calls <= Cardinality({i \in 1..Len(batch.videoIds.items) :
                                            validateVideoId(batch.videoIds.items[i])}))
    /\ [][\A r \in Req :
            (req[r].pc = "resolving" /\ req'[r] # req[r] /\ resolveSeq' = resolveSeq)
                => /\ req'[r].pc = "done"
                   /\ req'[r].sent = 1
                   /\ req'[r].status = CatchStatus(req[r].endpoint)
                   /\ req'[r].calls = 1]_vars
    /\ [][batch.pc = "running" =>
            /\ batch'.pc # "idle" => batch'.calls = batch.calls
            /\ \A i \in 1..Len(batch.results) :
                  (batch.results[i].status = "pending" /\ batch'.results[i] # batch.results[i]
                      /\ resolveSeq' = resolveSeq)
                  => /\ batch'.results[i].status = "rejected"
                     /\ batch'.results[i].reason \in ResolverErrors]_vars

\* A request whose one resolver call failed has its error answer, and a batch
\* has answered with a failure record that carries a resolver error.
C13_Witness ==
    /\ \E r \in Req :
          /\ req[r].pc = "done" /\ req[r].calls = 1 /\ req[r].info = NoInfo
          /\ req[r].status \in {404, 500} /\ req[r].sent = 1
    /\ batch.pc = "done" /\ batch.status = 200 /\ batch.calls >= 1
    /\ \E j \in 1..Len(batch.failed) : batch.failed[j].error \in ResolverErrors

\* C14: on every endpoint that resolves metadata, the answer to a resolver
\* failure of kind not-found is 404 and the answer to one of kind network is
\* 500, with the failure in details; the answer to a malformed identifier,
\* and the answer of GET /direct-link to metadata without an audio-only
\* format, is 400.
C14_StatusFollowsErrorKind ==
    \A r \in Req :
        req[r].pc = "done" =>
            /\ req[r].details = "not-found" => req[r].status = 404
            /\ req[r].details = "network" => req[r].status = 500
            /\ (Validates(req[r].endpoint) /\ ~validateVideoId(req[r].videoId))
                   => req[r].status = 400
            /\ (req[r].endpoint = "direct-link" /\ req[r].info # NoInfo /\ ~req[r].info.audio)
                   => req[r].status = 400

(***************************************************************************)
(* Properties of the transcoder's failures, checked under SpecDownload.    *)
(***************************************************************************)
\* The step in which the transcoder of download d emits 'error', or its
\* source stream does.
TranscodeFails(d) ==
    \/ dl[d].ffmpeg \in {"running", "killed"} /\ dl'[d].ffmpeg = "failed"
    \/ ~dl[d].streamErr /\ dl'[d].streamErr

\* C15: when the transcoder of a streaming download, or the source stream
\* feeding it, fails before any byte of its output has been written to the
\* response, the response is a 500 with one JSON error body, and it is
\* finished.
C15_EarlyTranscodeFailureAnswers500 ==
    [][\A d \in Dl :
          (TranscodeFails(d) /\ ~dl[d].bytes)
              => /\ dl'[d].status = 500
                 /\ dl'[d].sent = 1
                 /\ dl'[d].headersSent
                 /\ dl'[d].ended]_vars

\* A transcoder failed before its first byte while the client was still
\* connected, and the client has its 500.
C15_Witness ==
    \E d \in Dl :
        /\ dl[d].ffmpeg = "failed" /\ ~dl[d].bytes /\ ~dl[d].closed
        /\ dl[d].status = 500 /\ dl[d].sent = 1 /\ dl[d].ended

\* C16: when the transcoder of a streaming download fails after the headers
\* of the response have been sent, the failure changes neither the status nor
\* the number of JSON bodies written, and the response does not stay open: it
\* is eventually ended, unless the client has closed the connection.
C16_LateTranscodeFailureEndsResponse ==
    /\ [][\A d \in Dl :
            (TranscodeFails(d) /\ dl[d].headersSent)
                => /\ dl'[d].status = dl[d].status
                   /\ dl'[d].sent = dl[d].sent
                   /\ dl'[d].headersSent]_vars
    /\ \A d \in Dl :
          (dl[d].ffmpeg = "failed" /\ dl[d].bytes) ~> (dl[d].ended \/ dl[d].closed)

\* A transcoder failed after its first bytes went out with status 200, no
\* JSON body was written, and the response of the still connected client has
\* been ended.
C16_Witness ==
    \E d \in Dl :
        /\ dl[d].ffmpeg = "failed" /\ dl[d].bytes /\ ~dl[d].closed
        /\ dl[d].status = 200 /\ dl[d].sent = 0 /\ dl[d].ended

(***************************************************************************)
(* Properties of the format selection, checked under SpecFormats.          *)
(***************************************************************************)
\* The bitrate of the format at place i of list fs as the selection reads it.
Rate(fs, i) == OrZero(parseInt(fs[i].audioBitrate))

\* The smallest place of fs whose bitrate is the largest of the list.
FirstMax(fs) ==
    CHOOSE k \in 1..Len(fs) :
        /\ \A j \in 1..Len(fs) : Rate(fs, j) <= Rate(fs, k)
        /\ \A j \in 1..(k - 1) : Rate(fs, j) < Rate(fs, k)

\* C17: for a non-empty list of audio-only formats, the format chosen is the
\* one at the smallest index whose integer-parsed bitrate (a missing or
\* non-numeric one counting as 0) is the maximum of the list, and directUrl,
\* container, codecs, bitrate and sampleRate of the answer are that format's.
C17_SelectsFirstMaximumBitrate ==
    (calc.fn = "bestFormat" /\ calc.done) =>
        LET fs == calc.input
            f == fs[FirstMax(fs)]
        IN  /\ bestFormat(fs) = f
            /\ calc.output = [directUrl |-> f.url, container |-> f.container,
                              codecs |-> f.codecs, bitrate |-> f.audioBitrate,
                              sampleRate |-> f.audioSampleRate]
            /\ Rate(<<Format(1, BUndefined)>>, 1) = 0
            /\ Rate(<<Format(1, BText)>>, 1) = 0
            /\ Rate(<<Format(1, B160)>>, 1) = 160

\* The selection was made on the bitrates 64, 160, 128, 160 and gave the
\* format at the second place (index 1 counting from 0).
C17_Witness ==
    /\ calc.fn = "bestFormat" /\ calc.done
    /\ [i \in 1..Len(calc.input) |-> calc.input[i].audioBitrate] = <<B64, B160, B128, B160>>
    /\ calc.output.directUrl = <<"url", 2>>

(***************************************************************************)
(* Properties of sanitizeFilename, checked under SpecSanitize.             *)
(***************************************************************************)
\* The title t as the sanitization is described: the characters outside
\* [A-Za-z0-9_], white space and hyphen removed; then, of each run of white
\* space and hyphens, the first character made an underscore and the others
\* removed; then lowercased; then the first 100 characters.
Separators == White \cup {"-"}

Described(t) ==
    LET kept == SelectSeq(t, LAMBDA c : c \in Word \cup Separators)
        marked == [i \in 1..Len(kept) |->
                      [char |-> IF kept[i] \in Separators THEN "_" ELSE kept[i],
                       stays |-> \/ kept[i] \notin Separators
                                 \/ i = 1
                                 \/ kept[i - 1] \notin Separators]]
        joined == SelectSeq(marked, LAMBDA m : m.stays)
        lowered == [n \in 1..Len(joined) |-> LowerChar(joined[n].char)]
    IN  [n \in 1..(IF Len(lowered) < FILENAME_MAX THEN Len(lowered) ELSE FILENAME_MAX) |->
            lowered[n]]

\* The function of the server that made the call.
Sanitizer(srv, t) ==
    IF srv = "optimized" THEN sanitizeFilename(t) ELSE sanitizeFilenameFirst(t)

\* C18: sanitizeFilename(title) is the title as described above; it holds
\* only characters of [a-z0-9_], is at most 100 characters long, and
\* sanitizing it again changes nothing.
C18_SanitizeFilenameAsDescribed ==
    (calc.fn = "sanitizeFilename" /\ calc.done) =>
        /\ calc.output = Described(calc.input.title)
        /\ \A i \in 1..Len(calc.output) : calc.output[i] \in Lower \cup Digit \cup {"_"}
        /\ Len(calc.output) <= FILENAME_MAX
        /\ Sanitizer(calc.input.server, calc.output) = calc.output

C20_CacheNeverOverCapacity ==
    /\ Len(videoInfoCache) <= MaxCacheSize
    /\ Cardinality(CacheKeys(videoInfoCache)) = Len(videoInfoCache)

\* A request and the two items of a batch have stored the metadata of three
\* identifiers, one after the other with no clear in between; the cache is
\* at its capacity and holds the request's entry, stored last.
C20_Witness ==
    /\ Len(videoInfoCache) = MaxCacheSize
    /\ req[1].pc = "done" /\ req[1].status = 200 /\ ~req[1].hit /\ req[1].full
    /\ req[1].info.ver = MaxCacheSize + 1
    /\ videoInfoCache[Len(videoInfoCache)].data = req[1].info
    /\ batch.pc = "done" /\ Len(batch.successful) = MaxCacheSize
    /\ \E j \in 1..Len(batch.successful) :
          batch.successful[j].videoId \notin CacheKeys(videoInfoCache)

(***************************************************************************)
(* Properties of the cache under concurrent requests and failures,         *)
(* checked under Spec.                                                     *)
(***************************************************************************)
\* The requests whose resolver call fulfilled and which stored its result.
Stores(r) == req[r].pc = "done" /\ ~req[r].hit /\ req[r].status = 200

\* C21: an entry is installed in one step: in every state, every entry holds
\* the whole metadata of one fulfilled resolver call for its key together with
\* the time at which that very call's result was stored; and a request served
\* from the cache reads the metadata and the timestamp of one and the same
\* store, neither of them missing.
C21_EntryInstalledInOneStep ==
    /\ [](\A e \in Entries(videoInfoCache) :
             /\ e.data # NoInfo
             /\ e.data.id = e.key
             /\ e.data.ver \in 1..resolveSeq
             /\ \E w \in Req :
                   /\ Stores(w)
                   /\ req[w].info = e.data
                   /\ req[w].storedAt = e.timestamp)
    /\ [][\A r \in Req :
            (Starts(r) /\ req'[r].hit)
            => /\ req'[r].info # NoInfo
               /\ req'[r].info.id = req'[r].videoId
               /\ \E w \in Req :
                     /\ Stores(w)
                     /\ req[w].info = req'[r].info
                     /\ req'[r].age = now - req[w].storedAt]_vars

\* Two requests for one identifier resolved while both were in flight and
\* stored at different times, and a third was then served from the cache.
C21_Witness ==
    \E a, b, h \in Req :
        /\ Stores(a) /\ Stores(b) /\ req[b].overlap
        /\ req[a].videoId = req[b].videoId
        /\ req[a].storedAt < req[b].storedAt
        /\ req[h].pc = "done" /\ req[h].hit
        /\ req[h].info = req[b].info
        /\ req[h].age = 1

(***************************************************************************)
(* Properties of the janitors on a failing file system, checked under      *)
(* SpecJanitorFaults.                                                      *)
(***************************************************************************)
\* An operation of the janitor fails in this transition.
Fails == disk'.faults > disk.faults

\* C22: a failure inside a sweep stays inside it: no exception leaves the
\* timer's callback, no file of the sweep's listing goes unexamined because of
\* it, the other files of the sweep stay queued, and the timer stays armed
\* for the next sweep.
C22_JanitorFailureStaysInside ==
    /\ [](~disk.thrown)
    /\ [](disk.skipped = {})
    /\ [][Fails => /\ disk'.nextSweep > disk'.clock
                   /\ disk'.sweeps = disk.sweeps
                      => Cardinality(disk.pending \ disk'.pending) <= 1]_vars

(***************************************************************************)
(* Properties of the responses, checked under SpecResponses.               *)
(***************************************************************************)
\* The responses a download request has been given: the JSON bodies, and the
\* streamed body once its first bytes are written.
Responses(q) == q.sent + (IF q.bytes THEN 1 ELSE 0)

\* C23: every request of every endpoint is answered at most once, whatever
\* the order of the resolver's result, the stream's and the transcoder's
\* events, the early 400 answers and the catch block; once a response is
\* sent, no other is sent and its status stays.
C23_ResponseSentAtMostOnce ==
    /\ [](\A r \in Req : req[r].sent <= 1)
    /\ [](\A d \in Dl : Responses(dl[d]) <= 1)
    /\ [](batch.sent <= 1)
    /\ [][/\ \A r \in Req :
               req[r].sent = 1
               => req'[r].sent = 1 /\ req'[r].status = req[r].status
          /\ \A d \in Dl :
               Responses(dl[d]) = 1
               => /\ Responses(dl'[d]) = 1
                  /\ dl'[d].sent = dl[d].sent
                  /\ dl'[d].status = dl[d].status
          /\ batch.sent = 1
             => batch'.sent = 1 /\ batch'.status = batch.status]_vars

\* The source stream and the transcoder of a download both failed, and of
\* their two handlers one answered; a conversion of POST /download-mp3 failed
\* and was answered once; a batch was answered.
C23_Witness ==
    /\ \E d \in Dl :
          /\ dl[d].server = "first"
          /\ dl[d].streamErr /\ dl[d].ffmpeg = "failed"
          /\ dl[d].sent = 1 /\ dl[d].status = 500 /\ ~dl[d].bytes
    /\ \E r \in Req :
          /\ req[r].endpoint = "download-mp3-post"
          /\ req[r].pc = "done" /\ req[r].status = 500 /\ req[r].sent = 1
          /\ req[r].info # NoInfo
    /\ batch.pc = "done" /\ batch.sent = 1 /\ batch.status = 200

\* r's resolver call rejects in this transition.
Rejects(r) == req[r].pc = "resolving" /\ req'[r].pc = "done" /\ req'[r].status # 200

\* C24: when the resolver call of getCachedVideoInfo fails, the caller gets
\* the error and the cache is exactly what it was: no entry added, replaced
\* or removed, an expired entry of the identifier still there with its old
\* timestamp and still counted.
C24_ResolverFailureLeavesCacheAlone ==
    [][\A r \in Req :
          Rejects(r)
          => /\ req'[r].details \in ResolverErrors
             /\ req'[r].info = NoInfo
             /\ req'[r].status = CatchStatus(req[r].endpoint)
             /\ resolveSeq' = resolveSeq
             /\ videoInfoCache' = videoInfoCache
             /\ Len(videoInfoCache') = Len(videoInfoCache)
             /\ \A e \in Entries(videoInfoCache) :
                    e.key = req[r].videoId => e \in Entries(videoInfoCache')]_vars

\* A request found an expired entry, its resolver call failed, and the entry
\* is still in the full cache, expired, with the timestamp it had.
C24_Witness ==
    \E r \in Req :
        /\ req[r].pc = "done" /\ req[r].stale /\ req[r].status = 404
        /\ req[r].details \in ResolverErrors
        /\ Len(videoInfoCache) = MaxCacheSize
        /\ \E e \in Entries(videoInfoCache) :
              /\ e.key = req[r].videoId
              /\ e.timestamp = 0
              /\ now - e.timestamp >= CACHE_TTL

\* The position of key k in the order of the Map's keys.
Position(c, k) == CHOOSE i \in 1..Len(c) : c[i].key = k

\* C25: a store for an identifier that has an entry replaces it in place:
\* metadata and timestamp are the new ones, the size stays, no key goes, the
\* order of the keys stays, and the other entries are untouched; and whenever
\* a store makes a key go, that key is the first of the order, whatever the
\* timestamps.
C25_ExpiredEntryReplacedInPlace ==
    [][/\ \A r \in Req :
            (Fulfils(r) /\ req[r].videoId \in CacheKeys(videoInfoCache))
            => LET k == req[r].videoId
                   i == Position(videoInfoCache, k)
               IN  /\ Len(videoInfoCache') = Len(videoInfoCache)
                   /\ \A j \in 1..Len(videoInfoCache) :
                         /\ videoInfoCache'[j].key = videoInfoCache[j].key
                         /\ j # i => videoInfoCache'[j] = videoInfoCache[j]
                   /\ videoInfoCache'[i].data = req'[r].info
                   /\ videoInfoCache'[i].data # videoInfoCache[i].data
                   /\ videoInfoCache'[i].timestamp = now
       /\ \A k \in CacheKeys(videoInfoCache) \ CacheKeys(videoInfoCache') :
            k = videoInfoCache[1].key]_vars

\* An expired entry, the first of the order, was renewed; the next store of a
\* new identifier then evicted it, although the other entry had the older
\* timestamp.
C25_Witness ==
    \E r \in Req :
        /\ Stores(r) /\ req[r].stale
        /\ req[r].storedAt = CACHE_TTL
        /\ req[r].videoId \notin CacheKeys(videoInfoCache)
        /\ Len(videoInfoCache) = MaxCacheSize
        /\ \E e \in Entries(videoInfoCache) : e.timestamp < req[r].storedAt

(***************************************************************************)
(* Properties of POST /clear-cache, checked under SpecClear.               *)
(***************************************************************************)
\* POST /clear-cache is handled in this transition.
Clears == admin' # admin

\* C26: when POST /clear-cache answers, the cache is empty; the requests
\* waiting for the resolver go on waiting; every entry in the cache after a
\* clear comes from a resolver result returned after it; and the cache stays
\* within its capacity, with one well-formed entry per identifier.
C26_ClearEmptiesAndCancelsNothing ==
    /\ [][Clears => /\ videoInfoCache' = << >>
                    /\ admin'.status = 200
                    /\ admin'.size = 0
                    /\ req' = req
                    /\ admin'.inFlight = {r \in Req : req'[r].pc = "resolving"}]_vars
    /\ [](admin.cleared
          => /\ \A e \in Entries(videoInfoCache) : e.data.ver > admin.after
             /\ \A r \in admin.inFlight : req[r].pc \in {"resolving", "done"}
             /\ \A r \in admin.inFlight :
                    Stores(r) => req[r].info.ver > admin.after
             /\ Len(videoInfoCache) <= MaxCacheSize
             /\ \A i, j \in 1..Len(videoInfoCache) :
                    videoInfoCache[i].key = videoInfoCache[j].key => i = j
             /\ \A e \in Entries(videoInfoCache) :
                    /\ e.data # NoInfo
                    /\ e.data.id = e.key
                    /\ validateVideoId(e.key)
                    /\ e.timestamp <= now)

\* A request was waiting for the resolver when a cache that held an entry was
\* cleared; its result came afterwards and is in the cache, which has filled
\* up again.
C26_Witness ==
    /\ admin.cleared
    /\ admin.after > 0
    /\ Len(videoInfoCache) = MaxCacheSize
    /\ \E r \in admin.inFlight :
          /\ Stores(r)
          /\ \E e \in Entries(videoInfoCache) :
                e.key = req[r].videoId /\ e.data = req[r].info

====
